---- MODULE Spec2Model ----
(***************************************************************************)
(* docs/conf.py of Go-Short-Link: the Sphinx configuration module.         *)
(*                                                                         *)
(* The module is a straight line of fourteen assignments.  Python executes *)
(* them top to bottom into the module namespace (ns); Sphinx then sets up  *)
(* the listed extensions in order, selects the HTML theme and reads the    *)
(* source files found in the documentation directory, using the values the *)
(* namespace holds: exclude_patterns to drop paths, source_suffix to pick  *)
(* the parser of a file.  The directory's content (found) is the input.    *)
(***************************************************************************)
EXTENDS Naturals, Sequences, FiniteSets, TLC

VARIABLES
    pc,        \* index of the next statement of conf.py to execute
    ns,        \* the module namespace: name -> value, as loaded so far
    found,     \* files present in the documentation directory (input)
    next_ext,  \* index of the next entry of extensions to set up
    parsers,   \* source parsers registered so far
    themes,    \* HTML themes available so far
    theme,     \* the theme the builder selected ("" before selection)
    docs,      \* file -> parser, for every file read as a document
    ignored,   \* files seen and not read as documents
    error      \* "" or the first build error

vars == <<pc, ns, found, next_ext, parsers, themes, theme, docs, ignored, error>>

---------------------------------------------------------------------------
(* Bounds of the input: the files a documentation directory may hold.      *)

MaxFiles == 3

Stems == {"index", "requirements", "Thumbs"}

Suffixes == {".rst", ".txt", ".md", ".db"}

Files == [stem : Stems, suffix : Suffixes]

Path(f) == f.stem \o f.suffix

---------------------------------------------------------------------------
(* The literals of conf.py, under their own names.                         *)

project == "Go-Short-Link"

copyright == "2025, Fabian Wünderich"

author == "Fabian Wünderich"

version == "1"

extensions == <<"myst_parser", "sphinx_rtd_theme", "sphinx_toolbox.collapse">>

templates_path == <<"_templates">>

(* exclude_patterns as it would read had requirements.txt been left out.   *)
exclude_patterns_unlisted == <<"_build", "Thumbs.db", ".DS_Store">>

exclude_patterns == <<"_build", "Thumbs.db", ".DS_Store", "requirements.txt">>

html_theme == "sphinx_rtd_theme"

html_static_path == <<"_static">>

html_css_files == <<"css/custom.css">>

html_js_files == <<"js/custom.js">>

source_suffix ==
    (".rst" :> "restructuredtext") @@ (".txt" :> "markdown") @@ (".md" :> "markdown")

myst_enable_extensions ==
    <<"amsmath", "attrs_inline", "colon_fence", "deflist", "dollarmath",
      "fieldlist", "html_admonition", "html_image", "linkify", "replacements",
      "smartquotes", "strikethrough", "substitution", "tasklist">>

html_context ==
    [display_github |-> TRUE,
     github_user    |-> "fanonwue",
     github_repo    |-> "go-short-link",
     github_version |-> "master",
     conf_py_path   |-> "/docs/"]

(* The statements of the module in source order: each binds one name.      *)
Statements ==
    << [name |-> "project",                value |-> project],
       [name |-> "copyright",              value |-> copyright],
       [name |-> "author",                 value |-> author],
       [name |-> "version",                value |-> version],
       [name |-> "extensions",             value |-> extensions],
       [name |-> "templates_path",         value |-> templates_path],
       [name |-> "exclude_patterns",       value |-> exclude_patterns],
       [name |-> "html_theme",             value |-> html_theme],
       [name |-> "html_static_path",       value |-> html_static_path],
       [name |-> "html_css_files",         value |-> html_css_files],
       [name |-> "html_js_files",          value |-> html_js_files],
       [name |-> "source_suffix",          value |-> source_suffix],
       [name |-> "myst_enable_extensions", value |-> myst_enable_extensions],
       [name |-> "html_context",           value |-> html_context] >>

NStatements == Len(Statements)

Loaded == pc > NStatements

Range(s) == {s[i] : i \in DOMAIN s}

---------------------------------------------------------------------------
(* What the names conf.py lists stand for in the build.                    *)

(* Parsers a listed extension registers; restructuredtext is built in.     *)
ParsersOf(ext) == IF ext = "myst_parser" THEN {"markdown"} ELSE {}

(* Themes a listed extension makes available.                              *)
ThemesOf(ext) == IF ext = "sphinx_rtd_theme" THEN {"sphinx_rtd_theme"} ELSE {}

(* A path is dropped when an exclude pattern matches it; the patterns of   *)
(* conf.py hold no wildcard, so a pattern matches the path equal to it.    *)
Excluded(f) == Path(f) \in Range(ns["exclude_patterns"])

(* A file is a source file when its suffix is a key of source_suffix.      *)
IsSource(f) == f.suffix \in DOMAIN ns["source_suffix"]

ParserFor(f) == ns["source_suffix"][f.suffix]

---------------------------------------------------------------------------

Init ==
    /\ pc = 1
    /\ ns = << >>
    /\ found \in {S \in SUBSET Files : Cardinality(S) <= MaxFiles}
    /\ next_ext = 1
    /\ parsers = {"restructuredtext"}
    /\ themes = {"alabaster"}
    /\ theme = ""
    /\ docs = << >>
    /\ ignored = {}
    /\ error = ""

(* ExecStatement as it would be had the version line stood under a test    *)
(* of the directory: bound only when the directory holds a file.           *)
ExecStatement_guarded ==
    /\ pc <= NStatements
    /\ ns' = IF Statements[pc].name = "version" /\ found = {}
               THEN ns
               ELSE (Statements[pc].name :> Statements[pc].value) @@ ns
    /\ pc' = pc + 1
    /\ UNCHANGED <<found, next_ext, parsers, themes, theme, docs, ignored, error>>

(* Python executes the next module-level assignment: name = literal.       *)
ExecStatement ==
    /\ pc <= NStatements
    /\ ns' = (Statements[pc].name :> Statements[pc].value) @@ ns
    /\ pc' = pc + 1
    /\ UNCHANGED <<found, next_ext, parsers, themes, theme, docs, ignored, error>>

(* Sphinx sets up the listed extensions in list order.                     *)
SetupExtension ==
    /\ Loaded
    /\ error = ""
    /\ next_ext <= Len(ns["extensions"])
    /\ parsers' = parsers \cup ParsersOf(ns["extensions"][next_ext])
    /\ themes' = themes \cup ThemesOf(ns["extensions"][next_ext])
    /\ next_ext' = next_ext + 1
    /\ UNCHANGED <<pc, ns, found, theme, docs, ignored, error>>

(* The HTML builder selects html_theme; an unknown theme is a build error. *)
SelectTheme ==
    /\ Loaded
    /\ error = ""
    /\ next_ext > Len(ns["extensions"])
    /\ theme = ""
    /\ IF ns["html_theme"] \in themes
         THEN theme' = ns["html_theme"] /\ error' = error
         ELSE theme' = theme /\ error' = "no theme named " \o ns["html_theme"]
    /\ UNCHANGED <<pc, ns, found, next_ext, parsers, themes, docs, ignored>>

(* The builder takes one file of the directory: an excluded path or a file *)
(* of no configured suffix is left alone, any other is read with the       *)
(* parser its suffix names; a parser nobody registered is a build error.   *)
ReadDocument ==
    /\ Loaded
    /\ error = ""
    /\ theme # ""
    /\ \E f \in found \ (DOMAIN docs \cup ignored) :
          IF Excluded(f) \/ ~IsSource(f)
            THEN /\ ignored' = ignored \cup {f}
                 /\ UNCHANGED <<docs, error>>
            ELSE IF ParserFor(f) \in parsers
                   THEN /\ docs' = (f :> ParserFor(f)) @@ docs
                        /\ UNCHANGED <<ignored, error>>
                   ELSE /\ error' = "source parser not registered: " \o ParserFor(f)
                        /\ UNCHANGED <<docs, ignored>>
    /\ UNCHANGED <<pc, ns, found, next_ext, parsers, themes, theme>>

Next ==
    \/ ExecStatement
    \/ SetupExtension
    \/ SelectTheme
    \/ ReadDocument

Spec == Init /\ [][Next]_vars

---------------------------------------------------------------------------
(* Names of the short-link operations; conf.py binds none of them.         *)
ShortLinkOperations == {"create", "resolve", "update", "disable", "generate"}

(* The names bound by the first n statements.                              *)
BoundBy(n) == {Statements[i].name : i \in 1..n}

(* C9: conf.py is a straight line of assignments of literals and nothing   *)
(* else.  At every point of the load the namespace holds exactly the names *)
(* of the statements executed so far, each with the literal its statement  *)
(* gives, whatever the documentation directory holds, and none of them is  *)
(* a short-link operation; every step of the load moves to the next        *)
(* statement, keeps every binding already made and touches nothing but the *)
(* namespace (no branch, no loop, no rebinding, no I/O).  So every load    *)
(* ends, after NStatements steps, in one and the same configuration.       *)
C9_ConfIsStraightLineOfLiterals ==
    /\ [](/\ pc \in 1..(NStatements + 1)
          /\ DOMAIN ns = BoundBy(pc - 1)
          /\ \A i \in 1..(pc - 1) : ns[Statements[i].name] = Statements[i].value
          /\ DOMAIN ns \cap ShortLinkOperations = {}
          /\ Cardinality(DOMAIN ns) = pc - 1)
    /\ [][pc <= NStatements =>
            /\ pc' = pc + 1
            /\ \A n \in DOMAIN ns : n \in DOMAIN ns' /\ ns'[n] = ns[n]
            /\ UNCHANGED <<found, next_ext, parsers, themes, theme, docs,
                           ignored, error>>]_vars

(* C9 witness: the load has run to its end in a directory that holds files *)
(* and the build has gone on to read one of them.                          *)
C9_Witness ==
    /\ Loaded
    /\ Cardinality(DOMAIN ns) = 14
    /\ found # {}
    /\ DOMAIN docs # {}

(* C10: the configuration classifies source files consistently.  Once     *)
(* loaded, source_suffix has exactly the keys .rst, .txt and .md, .rst    *)
(* naming restructuredtext and the other two markdown; myst_parser and    *)
(* the package of html_theme are listed in extensions and                 *)
(* requirements.txt in exclude_patterns.  In the build this means: no     *)
(* build error arises, the selected theme is html_theme, every file read  *)
(* as a document is read by the one parser its suffix names and that      *)
(* parser is registered, requirements.txt is never read as a document,    *)
(* and it is the only .txt file left unread.                              *)
C10_SourceClassificationConsistent ==
    Loaded =>
      /\ DOMAIN ns["source_suffix"] = {".rst", ".txt", ".md"}
      /\ ns["source_suffix"][".rst"] = "restructuredtext"
      /\ ns["source_suffix"][".txt"] = "markdown"
      /\ ns["source_suffix"][".md"] = "markdown"
      /\ "myst_parser" \in Range(ns["extensions"])
      /\ ns["html_theme"] = "sphinx_rtd_theme"
      /\ ns["html_theme"] \in Range(ns["extensions"])
      /\ "requirements.txt" \in Range(ns["exclude_patterns"])
      /\ error = ""
      /\ theme \in {"", ns["html_theme"]}
      /\ \A f \in DOMAIN docs :
            /\ Path(f) # "requirements.txt"
            /\ docs[f] = IF f.suffix = ".rst" THEN "restructuredtext" ELSE "markdown"
            /\ f.suffix \in {".rst", ".txt", ".md"}
            /\ docs[f] \in parsers
      /\ \A f \in ignored : f.suffix = ".txt" => Path(f) = "requirements.txt"
      /\ DOMAIN docs \cap ignored = {}

(* C10 witness: a directory holding requirements.txt, another .txt file   *)
(* and an .rst file has been read through: requirements.txt was left      *)
(* alone, the other two were read as markdown and restructuredtext.       *)
C10_Witness ==
    /\ \E f \in ignored : Path(f) = "requirements.txt"
    /\ \E f \in DOMAIN docs : f.suffix = ".txt" /\ docs[f] = "markdown"
    /\ \E f \in DOMAIN docs : f.suffix = ".rst" /\ docs[f] = "restructuredtext"
    /\ theme = "sphinx_rtd_theme"

====
